---- MODULE Spec2Model ----
(***************************************************************************)
(* Order-n Markov chain over word tokens (src/common/models/markov.py):    *)
(* NLPTextTokens (tokenizer), NLPTextStateSpace (n-grams, state index,     *)
(* sparse count and probability matrices) and NLPTextMarkovChain (prefix   *)
(* repair and sampling).                                                   *)
(*                                                                         *)
(* A Python str is modelled as a sequence of one-character strings, so     *)
(* that split(' ') and ' '.join() are computed, not assumed.               *)
(*                                                                         *)
(* Specifications: Spec (construction, then tokenizer and state-space      *)
(* method calls), SpecText (the tokenizer on raw texts spelled character   *)
(* by character), SpecGen (one chain, any sequence of calls) and           *)
(* SpecShared (two chains on one state space, calls interleaved).          *)
(***************************************************************************)
EXTENDS Integers, Sequences, FiniteSets, TLC

\* ------------------------------------------------------------------ bounds
\* longest training text, in words
MaxTokens == 4
\* largest `length` passed to generate_sequence
MaxLength == 4
\* longest raw text, in characters, given to preprocess character by character
MaxChars == 5

\* ------------------------------------------------------ program constants
\* markov.py:183  if not (2 <= n <= 5)
MinN == 2
MaxN == 5

\* ------------------------------------------------------------ characters
\* code points of the characters used, for Python's str ordering
Ord(c) ==
    CASE c = "\t" -> 9
      [] c = "\n" -> 10
      [] c = " " -> 32
      [] c = "!" -> 33
      [] c = "\"" -> 34
      [] c = "(" -> 40
      [] c = ")" -> 41
      [] c = "," -> 44
      [] c = "-" -> 45
      [] c = "." -> 46
      [] c = ":" -> 58
      [] c = ";" -> 59
      [] c = "<" -> 60
      [] c = ">" -> 62
      [] c = "?" -> 63
      [] c = "_" -> 95
      [] c = "a" -> 97
      [] c = "b" -> 98
      [] c = "k" -> 107
      [] c = "n" -> 110
      [] c = "o" -> 111
      [] c = "u" -> 117
      [] c = "w" -> 119
      [] c = "|" -> 124

\* regex class \s restricted to the characters used (\S is its complement)
IsWhitespace(c) == c \in {" ", "\n", "\t"}

Range(s) == {s[i] : i \in 1..Len(s)}

Max(S) == CHOOSE x \in S : \A y \in S : y <= x

Min2(a, b) == IF a < b THEN a ELSE b

\* Python's s < t on str: lexicographic by code point
StrLess(s, t) ==
    \E k \in 1..(Min2(Len(s), Len(t)) + 1) :
        /\ \A i \in 1..(k - 1) : s[i] = t[i]
        /\ \/ k > Len(s) /\ k <= Len(t)
           \/ k <= Len(s) /\ k <= Len(t) /\ Ord(s[k]) < Ord(t[k])

\* str.split(' '): every single space separates, empty pieces are kept
RECURSIVE SplitFrom(_, _, _, _)
SplitFrom(s, i, cur, acc) ==
    IF i > Len(s) THEN Append(acc, cur)
    ELSE IF s[i] = " " THEN SplitFrom(s, i + 1, <<>>, Append(acc, cur))
    ELSE SplitFrom(s, i + 1, Append(cur, s[i]), acc)

Split(s) == SplitFrom(s, 1, <<>>, <<>>)

\* ' '.join(ws)
RECURSIVE Join(_)
Join(ws) ==
    IF Len(ws) = 0 THEN <<>>
    ELSE IF Len(ws) = 1 THEN ws[1]
    ELSE ws[1] \o <<" ">> \o Join(Tail(ws))

\* list.sort() of a list of distinct strings
RECURSIVE SortedList(_)
SortedList(S) ==
    IF S = {} THEN <<>>
    ELSE LET m == CHOOSE x \in S : \A y \in S : x = y \/ StrLess(x, y)
         IN  <<m>> \o SortedList(S \ {m})

\* list(set(l)): the distinct elements in an order the hash seed decides
SetOrders(S) ==
    {q \in [1..Cardinality(S) -> S] : \A i, j \in 1..Cardinality(S) : q[i] = q[j] => i = j}

\* {v: i for i, v in enumerate(l)}: a later duplicate overwrites the index
DictFromList(l) == [v \in Range(l) |-> Max({i - 1 : i \in {k \in 1..Len(l) : l[k] = v}})]

\* ------------------------------------------------------------- tokenizer
\* markov.py:82-83
PunctuationPad == {"!", "?", ".", ",", ":", "-", ";"}
PunctuationRemove == {"\"", "(", ")", "_", "\n"}

\* re.sub(r'(\S)(\n)(\S)', r'\1 \2 \3', raw): leftmost non-overlapping matches
RECURSIVE PadNewlines(_, _)
PadNewlines(s, i) ==
    IF i > Len(s) THEN <<>>
    ELSE IF /\ i + 2 <= Len(s)
            /\ ~IsWhitespace(s[i])
            /\ s[i + 1] = "\n"
            /\ ~IsWhitespace(s[i + 2])
         THEN <<s[i], " ", "\n", " ", s[i + 2]>> \o PadNewlines(s, i + 3)
         ELSE <<s[i]>> \o PadNewlines(s, i + 1)

\* translate(str.maketrans('', '', punctuation_remove))
RECURSIVE RemoveChars(_)
RemoveChars(s) ==
    IF Len(s) = 0 THEN <<>>
    ELSE IF Head(s) \in PunctuationRemove THEN RemoveChars(Tail(s))
    ELSE <<Head(s)>> \o RemoveChars(Tail(s))

\* the padding with f'{k} ' in place of f' {k} ': no space before the character
RECURSIVE PadPunctuationAfter(_)
PadPunctuationAfter(s) ==
    IF Len(s) = 0 THEN <<>>
    ELSE IF Head(s) \in PunctuationPad
         THEN <<Head(s), " ">> \o PadPunctuationAfter(Tail(s))
         ELSE <<Head(s)>> \o PadPunctuationAfter(Tail(s))

\* translate(str.maketrans({k: f' {k} ' for k in punctuation_pad}))
RECURSIVE PadPunctuation(_)
PadPunctuation(s) ==
    IF Len(s) = 0 THEN <<>>
    ELSE IF Head(s) \in PunctuationPad
         THEN <<" ", Head(s), " ">> \o PadPunctuation(Tail(s))
         ELSE <<Head(s)>> \o PadPunctuation(Tail(s))

\* re.sub(' +', ' ', s)
RECURSIVE CollapseSpaces(_)
CollapseSpaces(s) ==
    IF Len(s) = 0 THEN <<>>
    ELSE IF Head(s) = " " /\ Len(s) >= 2 /\ s[2] = " " THEN CollapseSpaces(Tail(s))
    ELSE <<Head(s)>> \o CollapseSpaces(Tail(s))

\* str.strip(): removes leading and trailing whitespace of any kind
RECURSIVE LStrip(_)
LStrip(s) == IF Len(s) > 0 /\ IsWhitespace(Head(s)) THEN LStrip(Tail(s)) ELSE s

RECURSIVE RStrip(_)
RStrip(s) ==
    IF Len(s) > 0 /\ IsWhitespace(s[Len(s)]) THEN RStrip(SubSeq(s, 1, Len(s) - 1)) ELSE s

Strip(s) == RStrip(LStrip(s))

\* NLPTextTokens.preprocess
Preprocess(rawText) ==
    Strip(CollapseSpaces(PadPunctuation(RemoveChars(PadNewlines(rawText, 1)))))

\* '<| unknown |>' appended to the vocabulary (markov.py:115)
UnknownToken == <<"<", "|", " ", "u", "n", "k", "n", "o", "w", "n", " ", "|", ">">>

\* NLPTextTokens.tokenize: content_list
TokenizeList(text) == Split(text)

\* the distinct elements of l in order of first appearance
RECURSIVE Dedup(_)
Dedup(l) ==
    IF Len(l) = 0 THEN <<>>
    ELSE LET front == Dedup(SubSeq(l, 1, Len(l) - 1))
         IN  IF l[Len(l)] \in Range(front) THEN front ELSE Append(front, l[Len(l)])

\* tokenize without content_set.sort()
TokenizeDictUnsorted(text) == DictFromList(Append(Dedup(Split(text)), UnknownToken))

\* NLPTextTokens.tokenize: content_dict
TokenizeDict(text) == DictFromList(Append(SortedList(Range(Split(text))), UnknownToken))

\* NLPTextTokens.total_tokens
TotalTokensOf(toks) == Len(toks)

\* NLPTextTokens.total_unique_tokens
TotalUniqueTokensOf(toks) == Cardinality(Range(toks))

\* ----------------------------------------------------------- state space
\* '<| unknwon |>' appended to the distinct n-grams (markov.py:252)
UnknownState == <<"<", "|", " ", "u", "n", "k", "n", "w", "o", "n", " ", "|", ">">>

\* tokens[i:]
SliceFrom(toks, i) == SubSeq(toks, i + 1, Len(toks))

\* generate_ngrams with one slice too many: the last window is lost
GenerateNgramsShort(toks, k) ==
    [p \in 1..(IF Len(toks) - k > 0 THEN Len(toks) - k ELSE 0) |->
        Join(SubSeq(toks, p, p + k - 1))]

\* NLPTextStateSpace.generate_ngrams: zip(*[tokens[i:] for i in range(n)]), joined
GenerateNgramsOf(toks, k) ==
    LET sequences == [i \in 1..k |-> SliceFrom(toks, i - 1)]
        shortest == CHOOSE m \in {Len(sequences[i]) : i \in 1..k} :
                        \A i \in 1..k : m <= Len(sequences[i])
    IN  [p \in 1..shortest |-> Join([i \in 1..k |-> sequences[i][p]])]

\* list(set(l)) in a process whose sets enumerate these strings in `order`
ListSet(l, order) == SelectSeq(order, LAMBDA g : g \in Range(l))

\* NLPTextStateSpace.generate_state_space in such a process
GenerateStateSpaceIn(grams, order) ==
    DictFromList(Append(ListSet(grams, order), UnknownState))

\* NLPTextStateSpace.generate_state_space: every dictionary the call may return,
\* over the processes (hash seeds) that may run it
GenerateStateSpaceOf(grams) ==
    {GenerateStateSpaceIn(grams, q) : q \in SetOrders(Range(grams))}

\* the loop with assignment in place of accumulation: a repeated (row, col)
\* pair is stored once
RECURSIVE CooArgsOverwrite(_, _, _, _, _)
CooArgsOverwrite(toks, map, k, ss, i) ==
    IF i >= Len(toks) - k THEN [row |-> <<>>, col |-> <<>>, data |-> <<>>]
    ELSE LET r == ss[Join(SubSeq(toks, i + 1, i + k))]
             c == map[toks[i + k + 1]]
             rest == CooArgsOverwrite(toks, map, k, ss, i + 1)
         IN  IF \E p \in 1..Len(rest.row) : rest.row[p] = r /\ rest.col[p] = c
             THEN rest
             ELSE [row |-> <<r>> \o rest.row, col |-> <<c>> \o rest.col,
                   data |-> <<1>> \o rest.data]

\* the loop stopping one window early
RECURSIVE CooArgsShort(_, _, _, _, _)
CooArgsShort(toks, map, k, ss, i) ==
    IF i >= Len(toks) - k - 1 THEN [row |-> <<>>, col |-> <<>>, data |-> <<>>]
    ELSE LET rest == CooArgsShort(toks, map, k, ss, i + 1)
         IN  [row |-> <<ss[Join(SubSeq(toks, i + 1, i + k))]>> \o rest.row,
              col |-> <<map[toks[i + k + 1]]>> \o rest.col,
              data |-> <<1>> \o rest.data]

\* the (row_ind, col_ind, values) lists filled by the loop of generate_transition_matrix
RECURSIVE CooArgs(_, _, _, _, _)
CooArgs(toks, map, k, ss, i) ==
    IF i >= Len(toks) - k THEN [row |-> <<>>, col |-> <<>>, data |-> <<>>]
    ELSE LET ngram == Join(SubSeq(toks, i + 1, i + k))
             rest == CooArgs(toks, map, k, ss, i + 1)
         IN  [row |-> <<ss[ngram]>> \o rest.row,
              col |-> <<map[toks[i + k + 1]]>> \o rest.col,
              data |-> <<1>> \o rest.data]

\* scipy coo_matrix((values, (row, col)), shape): duplicates are kept as separate
\* entries; an index outside the shape raises ValueError
CooMatrix(args, shape) ==
    IF \/ \E p \in 1..Len(args.row) : args.row[p] >= shape[1]
       \/ \E p \in 1..Len(args.col) : args.col[p] >= shape[2]
    THEN [err |-> "ValueError", shape |-> shape, row |-> <<>>, col |-> <<>>, data |-> <<>>]
    ELSE [err |-> "none", shape |-> shape, row |-> args.row, col |-> args.col,
          data |-> args.data]

\* NLPTextStateSpace.generate_transition_matrix
GenerateTransitionMatrixOf(toks, map, k, ss) ==
    CooMatrix(CooArgs(toks, map, k, ss, 0),
              <<Cardinality(DOMAIN ss), Cardinality(DOMAIN map)>>)

RECURSIVE SumSeq(_)
SumSeq(s) == IF Len(s) = 0 THEN 0 ELSE Head(s) + SumSeq(Tail(s))

\* entry (i, j) of a coo matrix once duplicate coordinates are summed (tocsr)
Entry(m, i, j) ==
    SumSeq([p \in 1..Len(m.data) |->
                IF m.row[p] = i /\ m.col[p] = j THEN m.data[p] ELSE 0])

\* L1 norm of row i
RowTotal(m, i) ==
    SumSeq([p \in 1..Len(m.data) |-> IF m.row[p] = i THEN m.data[p] ELSE 0])

\* L1 norm of column j
ColTotal(m, j) ==
    SumSeq([p \in 1..Len(m.data) |-> IF m.col[p] = j THEN m.data[p] ELSE 0])

\* normalize(m, norm='l1', axis=0): columns normalised in place of rows
NormalizeColumns(m) ==
    [err |-> m.err, shape |-> m.shape,
     val |-> [i \in 0..(m.shape[1] - 1) |-> [j \in 0..(m.shape[2] - 1) |->
                 IF ColTotal(m, j) = 0 THEN <<0, 1>>
                 ELSE <<Entry(m, i, j), ColTotal(m, j)>>]]]

\* sklearn normalize(m, norm='l1', axis=1): each stored entry is divided by its
\* row's L1 norm, rows without entries are left alone. A value is the exact
\* fraction <<numerator, denominator>>.
NormalizeL1(m) ==
    [err |-> m.err, shape |-> m.shape,
     val |-> [i \in 0..(m.shape[1] - 1) |-> [j \in 0..(m.shape[2] - 1) |->
                 IF RowTotal(m, i) = 0 THEN <<0, 1>>
                 ELSE <<Entry(m, i, j), RowTotal(m, i)>>]]]

\* NLPTextStateSpace.generate_transition_matrix_prob
GenerateTransitionMatrixProbOf(toks, map, k, ss) ==
    LET m == GenerateTransitionMatrixOf(toks, map, k, ss)
    IN  IF m.err = "none" THEN NormalizeL1(m)
        ELSE [err |-> m.err, shape |-> m.shape, val |-> <<>>]

\* fields of a state space whose constructor raised before setting them
NoMatrix == [err |-> "unset", shape |-> <<0, 0>>, row |-> <<>>, col |-> <<>>, data |-> <<>>]
NoProbMatrix == [err |-> "unset", shape |-> <<0, 0>>, val |-> <<>>]

\* ---------------------------------------------------------- constructors
\* a Python value handed to a constructor: its type and, for a str, its text
StrValue(s) == [type |-> "str", text |-> s]

\* NLPTextTokens.__init__(v): err is "none" or the exception raised
NLPTextTokensInit(v) ==
    IF v.type # "str"
    THEN [err |-> "TypeError", raw |-> <<>>, content |-> <<>>, tokens |-> <<>>,
          mapping |-> <<>>]
    ELSE [err |-> "none", raw |-> v.text, content |-> Preprocess(v.text),
          tokens |-> TokenizeList(Preprocess(v.text)),
          mapping |-> TokenizeDict(Preprocess(v.text))]

\* a constructed tokenizer as a Python value
TokenizerValue(t) == [type |-> "NLPTextTokens", tokens |-> t.tokens, mapping |-> t.mapping]

\* no state space: the constructor raised e before assigning a field
NoStateSpace(e) ==
    [err |-> e, ngrams |-> <<>>, state_space |-> <<>>,
     transition_matrix |-> NoMatrix, transition_matrix_prob |-> NoProbMatrix]

\* create_from_text with the exception of the constructors passed on unchanged
CreateFromTextPropagating(v, k, order) ==
    LET text_tokens == NLPTextTokensInit(v)
    IN  IF text_tokens.err # "none" THEN NoStateSpace(text_tokens.err)
        ELSE IF ~(MinN <= k /\ k <= MaxN) THEN NoStateSpace("ValueError")
        ELSE LET grams == GenerateNgramsOf(text_tokens.tokens, k)
                 ss == GenerateStateSpaceIn(grams, order)
                 m == GenerateTransitionMatrixOf(text_tokens.tokens,
                                                 text_tokens.mapping, k, ss)
             IN  IF m.err # "none" THEN NoStateSpace(m.err)
                 ELSE [err |-> "none", ngrams |-> grams, state_space |-> ss,
                       transition_matrix |-> m,
                       transition_matrix_prob |-> NormalizeL1(m)]

\* NLPTextStateSpace.__init__(c, k) in a process of hash order `order`: the type
\* check, the range check, then the four generate_* calls; a coo_matrix that
\* raises leaves the matrices unassigned
NLPTextStateSpaceInit(c, k, order) ==
    IF c.type # "NLPTextTokens" THEN NoStateSpace("TypeError")
    ELSE IF ~(MinN <= k /\ k <= MaxN) THEN NoStateSpace("ValueError")
    ELSE LET grams == GenerateNgramsOf(c.tokens, k)
             ss == GenerateStateSpaceIn(grams, order)
             m == GenerateTransitionMatrixOf(c.tokens, c.mapping, k, ss)
         IN  [err |-> m.err, ngrams |-> grams, state_space |-> ss,
              transition_matrix |-> IF m.err = "none" THEN m ELSE NoMatrix,
              transition_matrix_prob |->
                  IF m.err = "none"
                  THEN GenerateTransitionMatrixProbOf(c.tokens, c.mapping, k, ss)
                  ELSE NoProbMatrix]

\* NLPTextStateSpace.create_from_text(v, k): any exception of the two
\* constructors is replaced by ValueError
CreateFromText(v, k, order) ==
    LET text_tokens == NLPTextTokensInit(v)
        made == IF text_tokens.err # "none" THEN NoStateSpace(text_tokens.err)
                ELSE NLPTextStateSpaceInit(TokenizerValue(text_tokens), k, order)
    IN  IF made.err = "none" THEN made ELSE NoStateSpace("ValueError")

\* ---------------------------------------------------------------- inputs
WordA == <<"a">>
WordB == <<"b">>
SentinelWords == << <<"<", "|">>, <<"u", "n", "k", "n", "w", "o", "n">>, <<"|", ">">> >>

SeqsUpTo(S, k) == UNION {[1..m -> S] : m \in 0..k}

\* raw texts that preprocess rewrites: "a. a.", "b\na" and "(b) a,b"
PunctuatedTexts ==
    { <<"a", ".", " ", "a", ".">>,
      <<"b", "\n", "a">>,
      <<"(", "b", ")", " ", "a", ",", "b">> }

\* training texts: every text of at most MaxTokens words over two words, the
\* texts around the three words that spell the sentinel state, and the
\* punctuated ones
Texts ==
    {Join(ws) : ws \in SeqsUpTo({WordA, WordB}, MaxTokens)}
    \cup {Join(pre \o SentinelWords \o post) :
            pre \in SeqsUpTo({WordA}, 1), post \in SeqsUpTo({WordA}, 1)}
    \cup PunctuatedTexts

\* values of n passed to the constructor
NInputs == (MinN - 1)..(MaxN + 1)

\* values that are no str: 1234 and None
NonStrValues ==
    {[type |-> "int", text |-> <<"1", "2", "3", "4">>], [type |-> "NoneType", text |-> <<>>]}

\* raw texts spelled character by character: a letter, the space, the newline,
\* the tab, a padded and a removed punctuation character
RawChars == {"a", " ", "\n", "\t", ".", "_"}
RawTexts == SeqsUpTo(RawChars, MaxChars)

\* values passed as text
TextValues == {StrValue(t) : t \in Texts} \cup NonStrValues

\* ----------------------------------------------------------------- state
VARIABLES
    raw,                    \* NLPTextTokens._raw
    content,                \* NLPTextTokens._content
    tokens,                 \* NLPTextTokens._tokens
    mapping,                \* NLPTextTokens._mapping
    n,                      \* NLPTextStateSpace.n
    ngrams,                 \* NLPTextStateSpace._ngrams
    state_space,            \* NLPTextStateSpace._state_space
    transition_matrix,      \* NLPTextStateSpace._transition_matrix
    transition_matrix_prob, \* NLPTextStateSpace._transition_matrix_prob
    status,                 \* how NLPTextStateSpace.__init__ ended
    ret                     \* the last method call on the two objects and its result

tokenizerVars == <<raw, content, tokens, mapping>>
stateSpaceVars == <<n, ngrams, state_space, transition_matrix, transition_matrix_prob, status>>

VARIABLES
    built,                  \* the construction: the call made and the types of its arguments
    tokens_status,          \* how NLPTextTokens.__init__ ended
    hash_order              \* the order in which this process's sets enumerate the n-grams

processVars == <<built, tokens_status, hash_order>>

VARIABLES
    reverse_word_mapping,   \* NLPTextMarkovChain._reverse_word_mapping
    pc,                     \* "idle", "loop" (inside generate_sequence), "returned", "raised"
    call,                   \* the method called on the chain and its arguments
    prefix,                 \* generate_sequence: local prefix
    sequence,               \* generate_sequence: local sequence
    left,                   \* generate_sequence: iterations of the loop still to run
    result,                 \* the value returned, or the exception raised
    warnings,               \* warnings emitted during the call
    draws,                  \* random_ngram draws during the call
    samples                 \* tokens sampled during the call

chainVars == <<reverse_word_mapping, pc, call, prefix, sequence, left, result,
               warnings, draws, samples>>

VARIABLES
    peer                    \* a second NLPTextMarkovChain on the same state space:
                            \* the position and the locals of its call

vars == <<tokenizerVars, stateSpaceVars, processVars, ret, chainVars, peer>>

\* the objects after NLPTextTokens.__init__ ended as tok and the state space
\* construction `how`, called with k, ended as sp
Construct(tok, sp, k, order, how) ==
    /\ raw = tok.raw
    /\ content = tok.content
    /\ tokens = tok.tokens
    /\ mapping = tok.mapping
    /\ tokens_status = IF tok.err = "none" THEN "ok" ELSE tok.err
    /\ n = k
    /\ ngrams = sp.ngrams
    /\ state_space = sp.state_space
    /\ transition_matrix = sp.transition_matrix
    /\ transition_matrix_prob = sp.transition_matrix_prob
    /\ status = IF sp.err = "none" THEN "ok" ELSE sp.err
    /\ hash_order = order
    /\ built = how

\* the ways a state space is asked for: the constructor with the tokenizer, the
\* constructor with the text value in the tokenizer's place, create_from_text
Constructions == {"tokenizer", "value", "create_from_text"}

\* the constructions of a run: text values vs, n-gram sizes ks, ways hows. A
\* tokenizer is built from the value; then NLPTextStateSpace is called with the
\* tokenizer, or with the value itself in the tokenizer's place, or
\* create_from_text is called with the value.
InitObjectsFrom(vs, ks, hows) ==
    \E v \in vs, k \in ks :
        LET tok == NLPTextTokensInit(v)
            grams == IF tok.err = "none" /\ MinN <= k /\ k <= MaxN
                     THEN GenerateNgramsOf(tok.tokens, k) ELSE <<>>
        IN  \E order \in SetOrders(Range(grams)) :
                \/ /\ "tokenizer" \in hows
                   /\ tok.err = "none"
                   /\ Construct(tok, NLPTextStateSpaceInit(TokenizerValue(tok), k, order),
                                k, order,
                                [via |-> "NLPTextStateSpace", text |-> v.type,
                                 content |-> "NLPTextTokens"])
                \/ /\ "value" \in hows
                   /\ Construct(tok, NLPTextStateSpaceInit(v, k, order), k, order,
                                [via |-> "NLPTextStateSpace", text |-> v.type,
                                 content |-> v.type])
                \/ /\ "create_from_text" \in hows
                   /\ Construct(tok, CreateFromText(v, k, order), k, order,
                                [via |-> "create_from_text", text |-> v.type,
                                 content |-> "NLPTextTokens"])

InitObjects == InitObjectsFrom(TextValues, NInputs, Constructions)

NoCall == [op |-> "none", val |-> 0]

\* tokenizer.total_tokens()
TotalTokens ==
    /\ tokens_status = "ok"
    /\ ret' = [op |-> "total_tokens", val |-> TotalTokensOf(tokens)]
    /\ UNCHANGED <<tokenizerVars, stateSpaceVars, processVars, chainVars, peer>>

\* tokenizer.total_unique_tokens()
TotalUniqueTokens ==
    /\ tokens_status = "ok"
    /\ ret' = [op |-> "total_unique_tokens", val |-> TotalUniqueTokensOf(tokens)]
    /\ UNCHANGED <<tokenizerVars, stateSpaceVars, processVars, chainVars, peer>>

\* tokenizer.preprocess()
CallPreprocess ==
    /\ tokens_status = "ok"
    /\ ret' = [op |-> "preprocess", val |-> Preprocess(raw)]
    /\ UNCHANGED <<tokenizerVars, stateSpaceVars, processVars, chainVars, peer>>

\* state_space.generate_ngrams()
GenerateNgrams ==
    /\ status = "ok"
    /\ ret' = [op |-> "generate_ngrams", val |-> GenerateNgramsOf(tokens, n)]
    /\ UNCHANGED <<tokenizerVars, stateSpaceVars, processVars, chainVars, peer>>

\* generate_state_space() with sets that enumerate in a new order at every call
GenerateStateSpaceAnyOrder ==
    /\ status = "ok"
    /\ ngrams' = IF ngrams = <<>> THEN GenerateNgramsOf(tokens, n) ELSE ngrams
    /\ \E ss \in GenerateStateSpaceOf(ngrams') :
           ret' = [op |-> "generate_state_space", val |-> ss]
    /\ UNCHANGED <<tokenizerVars, n, state_space, transition_matrix,
                   transition_matrix_prob, status, processVars, chainVars, peer>>

\* state_space.generate_state_space(): an empty _ngrams is regenerated first
GenerateStateSpace ==
    /\ status = "ok"
    /\ ngrams' = IF ngrams = <<>> THEN GenerateNgramsOf(tokens, n) ELSE ngrams
    /\ ret' = [op |-> "generate_state_space",
               val |-> GenerateStateSpaceIn(ngrams', hash_order)]
    /\ UNCHANGED <<tokenizerVars, n, state_space, transition_matrix,
                   transition_matrix_prob, status, processVars, chainVars, peer>>

\* state_space.generate_transition_matrix(); _state_space is never empty here
\* (it holds the sentinel at least), so the regeneration branch is dead
GenerateTransitionMatrix ==
    /\ status = "ok"
    /\ ret' = [op |-> "generate_transition_matrix",
               val |-> GenerateTransitionMatrixOf(tokens, mapping, n, state_space)]
    /\ UNCHANGED <<tokenizerVars, stateSpaceVars, processVars, chainVars, peer>>

\* state_space.generate_transition_matrix_prob()
GenerateTransitionMatrixProb ==
    /\ status = "ok"
    /\ ret' = [op |-> "generate_transition_matrix_prob",
               val |-> GenerateTransitionMatrixProbOf(tokens, mapping, n, state_space)]
    /\ UNCHANGED <<tokenizerVars, stateSpaceVars, processVars, chainVars, peer>>

\* ----------------------------------------------------------------- chain
\* prefixes passed by callers: too short, of n-gram size, longer, with an empty
\* piece (two spaces), and the sentinel state's own text
Prefixes ==
    {Join(ws) : ws \in SeqsUpTo({WordA, WordB}, 2)}
    \cup {Join(<<WordA, WordA, WordB>>), Join(<<WordB, WordA, WordB>>),
          <<"a", " ", " ", "b">>, UnknownState}

\* l[-k:]
LastN(l, k) == IF Len(l) <= k THEN l ELSE SubSeq(l, Len(l) - k + 1, Len(l))

\* what a call did: err is "none" or the exception raised, val the value returned,
\* warned / drew / sampled count warnings.warn, random_ngram and token draws
Outcome(e, v, w, d, x) == [err |-> e, val |-> v, warned |-> w, drew |-> d, sampled |-> x]

\* NLPTextMarkovChain.random_ngram: np.random.choice raises ValueError on an
\* empty list
RandomNgramOutcomes(grams) ==
    IF Len(grams) = 0 THEN {Outcome("ValueError", <<>>, 0, 1, 0)}
    ELSE {Outcome("none", g, 0, 1, 0) : g \in Range(grams)}

\* an outcome of random_ngram reached after one warning
Warned(o) == [o EXCEPT !.warned = 1]

\* l[:k]
FirstN(l, k) == IF Len(l) <= k THEN l ELSE SubSeq(l, 1, k)

\* check_prefix keeping the first n pieces of the prefix in place of the last n
CheckPrefixFirstN(grams, k, pfx) ==
    LET prefix_list == FirstN(Split(pfx), k)
    IN  IF Len(prefix_list) < k
        THEN {Warned(o) : o \in RandomNgramOutcomes(grams)}
        ELSE IF Join(prefix_list) \in Range(grams)
             THEN {Outcome("none", Join(prefix_list), 0, 0, 0)}
             ELSE {Warned(o) : o \in RandomNgramOutcomes(grams)}

\* NLPTextMarkovChain.check_prefix
CheckPrefixOutcomes(grams, k, pfx) ==
    LET prefix_list == LastN(Split(pfx), k)
    IN  IF Len(prefix_list) < k
        THEN {Warned(o) : o \in RandomNgramOutcomes(grams)}
        ELSE IF Join(prefix_list) \in Range(grams)
             THEN {Outcome("none", Join(prefix_list), 0, 0, 0)}
             ELSE {Warned(o) : o \in RandomNgramOutcomes(grams)}

\* {i: v for v, i in mapping.items()}
ReverseWordMapping(map) ==
    [i \in {map[v] : v \in DOMAIN map} |-> CHOOSE v \in DOMAIN map : map[v] = i]

\* the sum of a list of fractions, as a fraction
RECURSIVE FracSum(_)
FracSum(fs) ==
    IF Len(fs) = 0 THEN <<0, 1>>
    ELSE LET r == FracSum(Tail(fs))
         IN  <<Head(fs)[1] * r[2] + r[1] * Head(fs)[2], Head(fs)[2] * r[2]>>

\* np.random.choice(range(len(weights)), p=weights) raises ValueError unless the
\* weights sum to 1
SumsToOne(weights) == FracSum(weights)[1] = FracSum(weights)[2]

\* a draw that ignores the weights: any index of the vocabulary
SampleAnyIndex(weights) == {j - 1 : j \in 1..Len(weights)}

\* np.random.choice(range(len(weights)), p=weights): the indices it may return
SampleOutcomes(weights) == {j - 1 : j \in {x \in 1..Len(weights) : weights[x][1] > 0}}

\* row `i` of the probability matrix as a dense list (.toarray()[0])
DenseRow(pm, i) == [j \in 1..pm.shape[2] |-> pm.val[i][j - 1]]

\* NLPTextMarkovChain.return_next_element after check_prefix returned o
NextElementAfter(o, ss, pm, rev) ==
    IF o.err # "none" THEN {o}
    ELSE IF ss[o.val] >= pm.shape[1] THEN {[o EXCEPT !.err = "IndexError", !.val = <<>>]}
    ELSE IF ~SumsToOne(DenseRow(pm, ss[o.val]))
         THEN {[o EXCEPT !.err = "ValueError", !.val = <<>>]}
         ELSE {[o EXCEPT !.val = rev[t], !.sampled = 1] :
               t \in SampleOutcomes(DenseRow(pm, ss[o.val]))}

\* NLPTextMarkovChain.return_next_element
ReturnNextElementOutcomes(grams, k, ss, pm, rev, pfx) ==
    UNION {NextElementAfter(o, ss, pm, rev) : o \in CheckPrefixOutcomes(grams, k, pfx)}

\* a chain with reverse vocabulary map rev that is in no call
IdlePeer(rev) ==
    [reverse_word_mapping |-> rev, pc |-> "idle",
     call |-> [op |-> "none", prefix |-> <<>>, length |-> 0],
     prefix |-> <<>>, sequence |-> <<>>, left |-> 0, result |-> <<>>]

\* NLPTextMarkovChain.__init__ on a constructed state space; no chain otherwise
InitChain ==
    /\ reverse_word_mapping = IF status = "ok" THEN ReverseWordMapping(mapping) ELSE <<>>
    /\ pc = "idle"
    /\ call = [op |-> "none", prefix |-> <<>>, length |-> 0]
    /\ prefix = <<>>
    /\ sequence = <<>>
    /\ left = 0
    /\ result = <<>>
    /\ warnings = 0
    /\ draws = 0
    /\ samples = 0
    /\ peer = IdlePeer(IF status = "ok" THEN ReverseWordMapping(mapping) ELSE <<>>)

Init ==
    /\ InitObjects
    /\ ret = NoCall
    /\ InitChain

\* a chain exists and is not inside a call
CanCall == status = "ok" /\ pc = "idle"

\* a call that ends in one step with outcome o
Finish(o) ==
    /\ pc' = IF o.err = "none" THEN "returned" ELSE "raised"
    /\ result' = IF o.err = "none" THEN o.val ELSE o.err
    /\ warnings' = o.warned
    /\ draws' = o.drew
    /\ samples' = o.sampled
    /\ prefix' = <<>>
    /\ sequence' = <<>>
    /\ left' = 0

\* random_ngram drawing with ngrams.pop(i): the drawn n-gram leaves the list of
\* the shared state space
RandomNgramPop ==
    /\ CanCall
    /\ call' = [op |-> "random_ngram", prefix |-> <<>>, length |-> 0]
    /\ \E i \in 1..Len(ngrams) :
        /\ Finish(Outcome("none", ngrams[i], 0, 1, 0))
        /\ ngrams' = SubSeq(ngrams, 1, i - 1) \o SubSeq(ngrams, i + 1, Len(ngrams))
    /\ UNCHANGED <<tokenizerVars, n, state_space, transition_matrix,
                   transition_matrix_prob, status, processVars, peer, ret,
                   reverse_word_mapping>>

\* chain.random_ngram()
RandomNgram ==
    /\ CanCall
    /\ call' = [op |-> "random_ngram", prefix |-> <<>>, length |-> 0]
    /\ \E o \in RandomNgramOutcomes(ngrams) : Finish(o)
    /\ UNCHANGED <<tokenizerVars, stateSpaceVars, processVars, peer, ret, reverse_word_mapping>>

\* chain.check_prefix(p)
CheckPrefix ==
    /\ CanCall
    /\ \E p \in Prefixes :
        /\ call' = [op |-> "check_prefix", prefix |-> p, length |-> 0]
        /\ \E o \in CheckPrefixOutcomes(ngrams, n, p) : Finish(o)
    /\ UNCHANGED <<tokenizerVars, stateSpaceVars, processVars, peer, ret, reverse_word_mapping>>

\* chain.return_next_element(p)
ReturnNextElement ==
    /\ CanCall
    /\ \E p \in Prefixes :
        /\ call' = [op |-> "return_next_element", prefix |-> p, length |-> 0]
        /\ \E o \in ReturnNextElementOutcomes(ngrams, n, state_space,
                        transition_matrix_prob, reverse_word_mapping, p) : Finish(o)
    /\ UNCHANGED <<tokenizerVars, stateSpaceVars, processVars, peer, ret, reverse_word_mapping>>

\* chain.generate_sequence(length, p), lines 432-435: repair the prefix, seed the
\* sequence, compute range_length
GenerateSequenceStart ==
    /\ CanCall
    /\ \E p \in Prefixes, length \in 0..MaxLength :
        /\ call' = [op |-> "generate_sequence", prefix |-> p, length |-> length]
        /\ \E o \in CheckPrefixOutcomes(ngrams, n, p) :
            /\ warnings' = o.warned
            /\ draws' = o.drew
            /\ samples' = 0
            /\ IF o.err # "none"
               THEN /\ pc' = "raised"
                    /\ result' = o.err
                    /\ prefix' = <<>>
                    /\ sequence' = <<>>
                    /\ left' = 0
               ELSE /\ pc' = "loop"
                    /\ result' = <<>>
                    /\ prefix' = o.val
                    /\ sequence' = Split(o.val)
                    /\ left' = IF length - Len(Split(o.val)) > 0
                               THEN length - Len(Split(o.val)) ELSE 0
    /\ UNCHANGED <<tokenizerVars, stateSpaceVars, processVars, peer, ret, reverse_word_mapping>>

\* one iteration of the loop, lines 437-440
GenerateSequenceStep ==
    /\ pc = "loop"
    /\ left > 0
    /\ \E o \in ReturnNextElementOutcomes(ngrams, n, state_space,
                    transition_matrix_prob, reverse_word_mapping, prefix) :
        /\ warnings' = warnings + o.warned
        /\ draws' = draws + o.drew
        /\ samples' = samples + o.sampled
        /\ IF o.err # "none"
           THEN /\ pc' = "raised"
                /\ result' = o.err
                /\ UNCHANGED <<prefix, sequence, left>>
           ELSE /\ sequence' = Append(sequence, o.val)
                /\ prefix' = Join(LastN(Append(sequence, o.val), n))
                /\ left' = left - 1
                /\ UNCHANGED <<pc, result>>
    /\ UNCHANGED <<tokenizerVars, stateSpaceVars, processVars, peer, ret, reverse_word_mapping, call>>

\* line 442: return ' '.join(sequence)
GenerateSequenceReturn ==
    /\ pc = "loop"
    /\ left = 0
    /\ pc' = "returned"
    /\ result' = Join(sequence)
    /\ UNCHANGED <<tokenizerVars, stateSpaceVars, processVars, peer, ret, reverse_word_mapping, call,
                   prefix, sequence, left, warnings, draws, samples>>

\* the call is over: the caller has its value or its exception, and the locals of
\* the call are gone; the chain itself keeps nothing of it
Collect ==
    /\ pc \in {"returned", "raised"}
    /\ pc' = "idle"
    /\ call' = [op |-> "none", prefix |-> <<>>, length |-> 0]
    /\ prefix' = <<>>
    /\ sequence' = <<>>
    /\ left' = 0
    /\ result' = <<>>
    /\ warnings' = 0
    /\ draws' = 0
    /\ samples' = 0
    /\ UNCHANGED <<tokenizerVars, stateSpaceVars, processVars, peer, ret, reverse_word_mapping>>

\* ------------------------------------------------ a second chain (peer)
\* the peer exists and is not inside a call
PeerCanCall == status = "ok" /\ peer.pc = "idle"

\* the peer after a call c that ended in one step with outcome o
PeerFinished(c, o) ==
    [peer EXCEPT !.pc = IF o.err = "none" THEN "returned" ELSE "raised",
                 !.call = c,
                 !.result = IF o.err = "none" THEN o.val ELSE o.err]

\* peer.random_ngram()
PeerRandomNgram ==
    /\ PeerCanCall
    /\ \E o \in RandomNgramOutcomes(ngrams) :
           peer' = PeerFinished([op |-> "random_ngram", prefix |-> <<>>, length |-> 0], o)
    /\ UNCHANGED <<tokenizerVars, stateSpaceVars, processVars, ret, chainVars>>

\* peer.check_prefix(p)
PeerCheckPrefix ==
    /\ PeerCanCall
    /\ \E p \in Prefixes :
        \E o \in CheckPrefixOutcomes(ngrams, n, p) :
           peer' = PeerFinished([op |-> "check_prefix", prefix |-> p, length |-> 0], o)
    /\ UNCHANGED <<tokenizerVars, stateSpaceVars, processVars, ret, chainVars>>

\* peer.return_next_element(p)
PeerReturnNextElement ==
    /\ PeerCanCall
    /\ \E p \in Prefixes :
        \E o \in ReturnNextElementOutcomes(ngrams, n, state_space,
                       transition_matrix_prob, peer.reverse_word_mapping, p) :
           peer' = PeerFinished([op |-> "return_next_element", prefix |-> p,
                                 length |-> 0], o)
    /\ UNCHANGED <<tokenizerVars, stateSpaceVars, processVars, ret, chainVars>>

\* peer.generate_sequence(length, p), lines 432-435
PeerGenerateSequenceStart ==
    /\ PeerCanCall
    /\ \E p \in Prefixes, length \in 0..MaxLength :
        \E o \in CheckPrefixOutcomes(ngrams, n, p) :
           peer' = IF o.err # "none"
                   THEN PeerFinished([op |-> "generate_sequence", prefix |-> p,
                                      length |-> length], o)
                   ELSE [peer EXCEPT
                           !.pc = "loop",
                           !.call = [op |-> "generate_sequence", prefix |-> p,
                                     length |-> length],
                           !.prefix = o.val,
                           !.sequence = Split(o.val),
                           !.left = IF length - Len(Split(o.val)) > 0
                                    THEN length - Len(Split(o.val)) ELSE 0]
    /\ UNCHANGED <<tokenizerVars, stateSpaceVars, processVars, ret, chainVars>>

\* one iteration of the peer's loop, lines 437-440
PeerGenerateSequenceStep ==
    /\ peer.pc = "loop"
    /\ peer.left > 0
    /\ \E o \in ReturnNextElementOutcomes(ngrams, n, state_space,
                    transition_matrix_prob, peer.reverse_word_mapping, peer.prefix) :
           peer' = IF o.err # "none"
                   THEN [peer EXCEPT !.pc = "raised", !.result = o.err]
                   ELSE [peer EXCEPT
                           !.sequence = Append(peer.sequence, o.val),
                           !.prefix = Join(LastN(Append(peer.sequence, o.val), n)),
                           !.left = peer.left - 1]
    /\ UNCHANGED <<tokenizerVars, stateSpaceVars, processVars, ret, chainVars>>

\* line 442 in the peer
PeerGenerateSequenceReturn ==
    /\ peer.pc = "loop"
    /\ peer.left = 0
    /\ peer' = [peer EXCEPT !.pc = "returned", !.result = Join(peer.sequence)]
    /\ UNCHANGED <<tokenizerVars, stateSpaceVars, processVars, ret, chainVars>>

\* the peer's call is over: its locals are gone
PeerCollect ==
    /\ peer.pc \in {"returned", "raised"}
    /\ peer' = IdlePeer(peer.reverse_word_mapping)
    /\ UNCHANGED <<tokenizerVars, stateSpaceVars, processVars, ret, chainVars>>

\* ------------------------------------------------------- specifications
\* the tokenizer and the state space: construction, then any method calls
Next ==
    \/ TotalTokens
    \/ TotalUniqueTokens
    \/ GenerateNgrams
    \/ GenerateStateSpace
    \/ GenerateTransitionMatrix
    \/ GenerateTransitionMatrixProb

Spec == Init /\ [][Next]_vars

\* the tokenizer on raw texts spelled character by character
InitText ==
    /\ InitObjectsFrom({StrValue(t) : t \in RawTexts}, {MaxN}, {"tokenizer"})
    /\ ret = NoCall
    /\ InitChain

NextText ==
    \/ CallPreprocess
    \/ TotalTokens
    \/ TotalUniqueTokens

SpecText == InitText /\ [][NextText]_vars

\* a chain over a constructed state space: any sequence of calls
NextChain ==
    \/ RandomNgram
    \/ CheckPrefix
    \/ ReturnNextElement
    \/ GenerateSequenceStart
    \/ GenerateSequenceStep
    \/ GenerateSequenceReturn
    \/ Collect

SpecGen == Init /\ [][NextChain]_vars

\* training texts of the state space two chains share: one too short for an
\* n-gram, and those of n + 1 words
SharedTexts == {WordA} \cup {Join(ws) : ws \in [1..(MinN + 1) -> {WordA, WordB}]}

\* two chains on one state space, their calls interleaved step by step
InitShared ==
    /\ InitObjectsFrom({StrValue(t) : t \in SharedTexts}, {MinN}, {"tokenizer"})
    /\ ret = NoCall
    /\ InitChain

NextShared ==
    \/ RandomNgram
    \/ CheckPrefix
    \/ ReturnNextElement
    \/ GenerateSequenceStart
    \/ GenerateSequenceStep
    \/ GenerateSequenceReturn
    \/ Collect
    \/ PeerRandomNgram
    \/ PeerCheckPrefix
    \/ PeerReturnNextElement
    \/ PeerGenerateSequenceStart
    \/ PeerGenerateSequenceStep
    \/ PeerGenerateSequenceReturn
    \/ PeerCollect

SpecShared == InitShared /\ [][NextShared]_vars

\* ------------------------------------------------------------ properties
\* size of the state index and of the vocabulary
S == Cardinality(DOMAIN state_space)
V == Cardinality(DOMAIN mapping)

\* the n-gram that starts at token position p (0-based)
NgramAt(p) == Join(SubSeq(tokens, p + 1, p + n))

\* C7: the vocabulary maps the distinct tokens, in sorted order and followed by
\* the unknown sentinel, one-to-one onto 0..V-1; the sentinel has index V-1 and
\* is no token; total_tokens() is len(tokens), total_unique_tokens() the number
\* of distinct tokens, and V is one more than that (for a constructed tokenizer).
C7_Vocabulary ==
    tokens_status = "ok" =>
        /\ DOMAIN mapping = Range(tokens) \cup {UnknownToken}
        /\ {mapping[v] : v \in DOMAIN mapping} = 0..(V - 1)
        /\ \A v, w \in DOMAIN mapping : mapping[v] = mapping[w] => v = w
        /\ \A v, w \in Range(tokens) : StrLess(v, w) => mapping[v] < mapping[w]
        /\ mapping[UnknownToken] = V - 1
        /\ \A p \in 1..Len(tokens) : tokens[p] # UnknownToken
        /\ ret.op = "total_tokens" => ret.val = Len(tokens)
        /\ ret.op = "total_unique_tokens" =>
               /\ ret.val = Cardinality({tokens[p] : p \in 1..Len(tokens)})
               /\ V = ret.val + 1

\* C7 witness: a text that repeats a token and has several distinct ones, whose
\* first token does not sort first, after total_unique_tokens()
C7_Witness ==
    /\ ret.op = "total_unique_tokens"
    /\ ret.val >= 2
    /\ Len(tokens) > ret.val
    /\ mapping[tokens[1]] > 0

\* C10: generate_ngrams yields max(len(tokens) - n + 1, 0) entries, the k-th
\* being tokens[k..k+n-1] joined by single spaces, in order, duplicates kept.
C10_Ngrams ==
    status = "ok" =>
        /\ Len(ngrams) = (IF Len(tokens) - n + 1 > 0 THEN Len(tokens) - n + 1 ELSE 0)
        /\ \A p \in 1..Len(ngrams) : ngrams[p] = NgramAt(p - 1)
        /\ ret.op = "generate_ngrams" => ret.val = ngrams

\* C10 witness: generate_ngrams() returned a sequence that holds one n-gram twice
C10_Witness ==
    /\ status = "ok"
    /\ ret.op = "generate_ngrams"
    /\ Len(ret.val) >= 3
    /\ ret.val[1] = ret.val[3]
    /\ ret.val[1] # ret.val[2]

\* C6 (as claimed): the state index is one-to-one from the distinct n-grams plus
\* the sentinel state onto 0..S-1, the sentinel is no generated n-gram, S is the
\* number of distinct n-grams plus one, and every row index of the count matrix
\* is below S.
C6_StateIndexBijection ==
    status = "ok" =>
        /\ DOMAIN state_space = Range(ngrams) \cup {UnknownState}
        /\ UnknownState \notin Range(ngrams)
        /\ S = Cardinality(Range(ngrams)) + 1
        /\ {state_space[g] : g \in DOMAIN state_space} = 0..(S - 1)
        /\ \A g, h \in DOMAIN state_space : state_space[g] = state_space[h] => g = h
        /\ \A p \in 1..Len(transition_matrix.row) : transition_matrix.row[p] < S

\* the number of positions whose n-gram has index i and whose next token has index j
Observed(i, j) ==
    Cardinality({p \in 0..(Len(tokens) - n - 1) :
                    state_space[NgramAt(p)] = i /\ mapping[tokens[p + n + 1]] = j})

\* C8: the count matrix has shape (S, V) and, duplicates summed, its entry
\* (i, j) is the number of positions p in 0..len(tokens)-n-1 whose n-gram has
\* state index i and whose next token has vocabulary index j.
C8_TransitionCounts ==
    status = "ok" =>
        /\ transition_matrix.shape = <<S, V>>
        /\ \A i \in 0..(S - 1), j \in 0..(V - 1) :
               Entry(transition_matrix, i, j) = Observed(i, j)
        /\ SumSeq(transition_matrix.data) =
               (IF Len(tokens) - n > 0 THEN Len(tokens) - n ELSE 0)
        /\ ret.op = "generate_transition_matrix" => ret.val = transition_matrix

\* C8 witness: a (state, next token) pair seen twice counts 2, after
\* generate_transition_matrix()
C8_Witness ==
    /\ status = "ok"
    /\ ret.op = "generate_transition_matrix"
    /\ \E i \in 0..(S - 1), j \in 0..(V - 1) : Entry(ret.val, i, j) = 2

C4_NoZeroRowForNgrams ==
    status = "ok" =>
        /\ \A p \in 1..Len(ngrams) : RowTotal(transition_matrix, state_space[ngrams[p]]) > 0
        /\ \A g \in DOMAIN state_space :
               RowTotal(transition_matrix, state_space[g]) = 0 => g = UnknownState

\* C4 (amended): every n-gram at a position other than the last of the n-gram
\* sequence has a nonzero row total; a state with an all-zero row is the sentinel
\* state or the last n-gram of the sequence, occurring nowhere before.
C4_ZeroRowOnlyLastNgram ==
    status = "ok" =>
        /\ \A p \in 1..(Len(ngrams) - 1) :
               /\ state_space[ngrams[p]] < transition_matrix.shape[1]
               /\ RowTotal(transition_matrix, state_space[ngrams[p]]) > 0
        /\ \A g \in DOMAIN state_space :
               RowTotal(transition_matrix, state_space[g]) = 0 =>
                   \/ g = UnknownState
                   \/ /\ Len(ngrams) > 0
                      /\ g = ngrams[Len(ngrams)]
                      /\ \A p \in 1..(Len(ngrams) - 1) : ngrams[p] # g

\* C4 witness: the last n-gram occurs once and has an all-zero row, the others
\* have counts
C4_Witness ==
    /\ status = "ok"
    /\ Len(ngrams) >= 3
    /\ RowTotal(transition_matrix, state_space[ngrams[Len(ngrams)]]) = 0
    /\ RowTotal(transition_matrix, state_space[ngrams[1]]) = 2

\* the last n pieces of the prefix the caller passed, joined
KeptPrefix == Join(LastN(Split(call.prefix), n))

\* the caller's prefix has n pieces at least and its last n are a known n-gram
PrefixAccepted ==
    /\ Len(Split(call.prefix)) >= n
    /\ KeptPrefix \in Range(ngrams)

\* C2 (as claimed): check_prefix on a prefix that is too short or unknown never
\* raises: it warns and returns a member of the n-gram sequence.
C2_FallbackNeverRaises ==
    (/\ call.op = "check_prefix"
     /\ pc \in {"returned", "raised"}
     /\ ~PrefixAccepted) =>
        /\ pc = "returned"
        /\ warnings = 1
        /\ draws = 1
        /\ result \in Range(ngrams)

\* C3: check_prefix keeps the last n pieces of the prefix and returns their join
\* unchanged, without warning or draw, when it is a known n-gram; so whatever
\* check_prefix returned, check_prefix of it returns it again.
C3_CheckPrefixIdempotent ==
    (call.op = "check_prefix" /\ pc = "returned") =>
        /\ PrefixAccepted => (result = KeptPrefix /\ warnings = 0 /\ draws = 0)
        /\ CheckPrefixOutcomes(ngrams, n, result) = {Outcome("none", result, 0, 0, 0)}

\* C3 witness: a prefix longer than n whose last n pieces are a known n-gram and
\* whose first n are another one
C3_Witness ==
    /\ call.op = "check_prefix"
    /\ pc = "returned"
    /\ Len(Split(call.prefix)) > n
    /\ PrefixAccepted
    /\ Join(FirstN(Split(call.prefix), n)) \in Range(ngrams)
    /\ result # Join(FirstN(Split(call.prefix), n))

\* C3 witness, fallback case: the value of a random draw is returned
C3_WitnessFallback ==
    /\ call.op = "check_prefix"
    /\ pc = "returned"
    /\ warnings = 1

\* C1 (as claimed): generate_sequence(length, prefix) with length >= n returns
\* exactly `length` space-separated tokens, the first n being the repaired prefix
\* (the caller's kept prefix when it is accepted, a known n-gram in any case).
C1_SequenceLength ==
    (/\ call.op = "generate_sequence"
     /\ pc \in {"returned", "raised"}
     /\ call.length >= n) =>
        /\ pc = "returned"
        /\ Len(Split(result)) = call.length
        /\ Join(FirstN(Split(result), n)) \in Range(ngrams)
        /\ PrefixAccepted => Join(FirstN(Split(result), n)) = KeptPrefix

\* C5 (as claimed): generate_sequence(length, prefix) with length <= n returns the
\* first `length` tokens of the repaired prefix and samples nothing.
C5_ShortLengthTruncates ==
    (/\ call.op = "generate_sequence"
     /\ pc = "returned"
     /\ call.length <= n) =>
        /\ samples = 0
        /\ result = Join(FirstN(sequence, call.length))

\* the state space constructor was called with a tokenizer and an n inside [2,5]
ValidConstruction ==
    /\ built.via = "NLPTextStateSpace"
    /\ built.content = "NLPTextTokens"
    /\ MinN <= n /\ n <= MaxN

\* no object came out of the construction: no field is set and no method answers
NoStateSpaceObject ==
    /\ transition_matrix = NoMatrix
    /\ transition_matrix_prob = NoProbMatrix
    /\ reverse_word_mapping = <<>>
    /\ ret.op \notin {"generate_ngrams", "generate_state_space",
                      "generate_transition_matrix", "generate_transition_matrix_prob"}
    /\ pc = "idle"

\* C11 (as claimed): NLPTextTokens raises TypeError for content that is no str;
\* NLPTextStateSpace raises TypeError for content that is no tokenizer, whatever
\* n is, and ValueError for a tokenizer with n outside [2,5]; with a tokenizer and
\* n in [2,5] it succeeds; a construction that raised left no usable object.
C11_ConstructionErrors ==
    /\ built.text # "str" => (tokens_status = "TypeError" /\ tokens = <<>> /\ mapping = <<>>)
    /\ built.via = "NLPTextStateSpace" =>
        /\ built.content # "NLPTextTokens" => status = "TypeError"
        /\ (built.content = "NLPTextTokens" /\ ~(MinN <= n /\ n <= MaxN)) =>
               status = "ValueError"
        /\ ValidConstruction => status = "ok"
    /\ status # "ok" => NoStateSpaceObject

\* the part of C11 on argument errors alone: the type checks, their order, the
\* range check, and no object after an exception
C11_ArgumentErrors ==
    /\ built.text # "str" => (tokens_status = "TypeError" /\ tokens = <<>> /\ mapping = <<>>)
    /\ built.via = "NLPTextStateSpace" =>
        /\ built.content # "NLPTextTokens" => status = "TypeError"
        /\ (built.content = "NLPTextTokens" /\ ~(MinN <= n /\ n <= MaxN)) =>
               status = "ValueError"
    /\ status # "ok" => NoStateSpaceObject

\* a tokenizer and an n in [2,5], and the constructor raised
C11_ValidConstructionRaises ==
    /\ ValidConstruction
    /\ status # "ok"

\* NLPTextStateSpace(NLPTextTokens(text), n) evaluated in the same process on the
\* arguments create_from_text was given
DirectConstruction ==
    LET tok == NLPTextTokensInit([type |-> built.text, text |-> raw])
    IN  IF tok.err # "none" THEN NoStateSpace(tok.err)
        ELSE NLPTextStateSpaceInit(TokenizerValue(tok), n, hash_order)

\* C12: create_from_text(text, n) ends without exception exactly when
\* NLPTextStateSpace(NLPTextTokens(text), n) does, and then holds the same n-gram
\* sequence, state index and matrices; when either constructor raises, whatever
\* the exception, create_from_text raises ValueError.
C12_CreateFromText ==
    built.via = "create_from_text" =>
        /\ status \in {"ok", "ValueError"}
        /\ (status = "ok") <=> (DirectConstruction.err = "none")
        /\ status = "ok" =>
            /\ ngrams = DirectConstruction.ngrams
            /\ state_space = DirectConstruction.state_space
            /\ transition_matrix = DirectConstruction.transition_matrix
            /\ transition_matrix_prob = DirectConstruction.transition_matrix_prob

\* C12 witness: create_from_text on a value that is no str, where NLPTextTokens
\* raises TypeError, has raised ValueError
C12_Witness ==
    /\ built.via = "create_from_text"
    /\ built.text # "str"
    /\ DirectConstruction.err = "TypeError"
    /\ status = "ValueError"

\* create_from_text returned a state space with several states
C12_WitnessSuccess ==
    /\ built.via = "create_from_text"
    /\ status = "ok"
    /\ Cardinality(Range(ngrams)) >= 2

\* the characters of s that satisfy Keep, in order
KeptChars(s, Keep(_)) == SelectSeq(s, Keep)

NotSpace(c) == c # " "
NotSpaceNorRemoved(c) == c # " " /\ c \notin PunctuationRemove

\* the content has no space at either end, no two spaces in a row and no removed
\* character, and every padded punctuation character stands alone between spaces
ContentWellFormed ==
    /\ Len(content) > 0 => (content[1] # " " /\ content[Len(content)] # " ")
    /\ \A i \in 1..(Len(content) - 1) : ~(content[i] = " " /\ content[i + 1] = " ")
    /\ \A i \in 1..Len(content) : content[i] \notin PunctuationRemove
    /\ \A i \in 1..Len(content) :
           content[i] \in PunctuationPad =>
               /\ i = 1 \/ content[i - 1] = " "
               /\ i = Len(content) \/ content[i + 1] = " "
    /\ \A i \in 1..Len(tokens) :
           (\E j \in 1..Len(tokens[i]) : tokens[i][j] \in PunctuationPad) =>
               Len(tokens[i]) = 1

\* C13 (as claimed): for every raw text the content is well formed (no space at
\* the ends, no double space, no removed character, padded punctuation alone in
\* its token) and every other character of the raw text is kept, in order.
C13_PreprocessKeepsOthers ==
    tokens_status = "ok" =>
        /\ ContentWellFormed
        /\ KeptChars(content, NotSpace) = KeptChars(raw, NotSpaceNorRemoved)
        /\ ret.op = "preprocess" => ret.val = content

\* C13 (amended): the content is well formed, and the characters kept, in
\* order, are those of the raw text without the removed characters and without
\* the whitespace (tabs as well as spaces) that then begins or ends it.
C13_PreprocessKeepsStripped ==
    tokens_status = "ok" =>
        /\ ContentWellFormed
        /\ KeptChars(content, NotSpace) = KeptChars(Strip(RemoveChars(raw)), NotSpace)
        /\ ret.op = "preprocess" => ret.val = content

\* C13 witness: preprocess() on a text that begins with a tab and holds a padded
\* and a removed character; the tab is gone, the punctuation is a token
C13_Witness ==
    /\ ret.op = "preprocess"
    /\ Len(raw) = MaxChars
    /\ raw[1] = "\t"
    /\ \E i \in 1..Len(raw) : raw[i] \in PunctuationRemove
    /\ Len(tokens) = 2
    /\ tokens[2] = <<".">>
    /\ KeptChars(content, NotSpace) # KeptChars(raw, NotSpaceNorRemoved)

\* the state space another process, whose sets enumerate the n-grams in `order`,
\* builds from the same token sequence and n
BuiltElsewhere(order) ==
    NLPTextStateSpaceInit(TokenizerValue([tokens |-> tokens, mapping |-> mapping]),
                          n, order)

\* C14 (as claimed): a state space built in any run from the same token sequence
\* and the same n has the same state index, count matrix and probability matrix
\* as this one.
C14_DeterministicStateIndex ==
    status = "ok" =>
        \A order \in SetOrders(Range(ngrams)) :
            /\ BuiltElsewhere(order).state_space = state_space
            /\ BuiltElsewhere(order).transition_matrix = transition_matrix
            /\ BuiltElsewhere(order).transition_matrix_prob = transition_matrix_prob

\* the chain is in no call and holds nothing of an earlier one
NothingKept ==
    /\ call = [op |-> "none", prefix |-> <<>>, length |-> 0]
    /\ prefix = <<>>
    /\ sequence = <<>>
    /\ left = 0
    /\ result = <<>>
    /\ warnings = 0
    /\ draws = 0
    /\ samples = 0

\* C15: whatever step either of two chains on one state space takes, in any
\* interleaving of their calls, the tokens, the vocabulary, n, the n-gram
\* sequence, the state index and both matrices stay as constructed, and so do the
\* reverse vocabulary maps; a chain that is in no call holds nothing but those.
C15_SharedStateUnchanged ==
    [][/\ UNCHANGED <<tokenizerVars, stateSpaceVars, reverse_word_mapping>>
       /\ peer'.reverse_word_mapping = peer.reverse_word_mapping
       /\ reverse_word_mapping' = ReverseWordMapping(mapping')
       /\ peer'.reverse_word_mapping = ReverseWordMapping(mapping')
       /\ pc' = "idle" => NothingKept'
       /\ peer'.pc = "idle" => peer' = IdlePeer(peer.reverse_word_mapping)]_vars

\* C15 witness: both chains are inside generate_sequence, each has sampled a
\* token, and the other's call began after the first one's
C15_Witness ==
    /\ pc = "loop"
    /\ peer.pc = "loop"
    /\ Len(sequence) > n
    /\ Len(peer.sequence) > n
    /\ left > 0
    /\ peer.left > 0
    /\ call # peer.call

\* token t occurs immediately after an occurrence of n-gram g in the training tokens
ObservedAfter(g, t) ==
    \E p \in 0..(Len(tokens) - n - 1) : NgramAt(p) = g /\ tokens[p + n + 1] = t

\* n-gram g has a row in the probability matrix and token t a nonzero weight in it
HasWeight(g, t) ==
    /\ g \in DOMAIN state_space
    /\ t \in DOMAIN mapping
    /\ state_space[g] < transition_matrix_prob.shape[1]
    /\ transition_matrix_prob.val[state_space[g]][mapping[t]][1] > 0

\* the windows of k consecutive elements of l
Windows(l, k) == {SubSeq(l, p, p + k - 1) : p \in 1..(Len(l) - k + 1)}

\* C16: a token return_next_element returns has nonzero weight in the row of the
\* repaired prefix (the caller's kept prefix when it is accepted) and was observed
\* right after that n-gram in training; every token observed after an n-gram can
\* be returned for it; so every window of n+1 tokens of a sequence generated so
\* far, and of the returned text, occurs contiguously in the training tokens, and
\* the unknown token is never produced.
C16_OnlyObservedSuccessors ==
    /\ (call.op = "return_next_element" /\ pc = "returned") =>
           /\ result # UnknownToken
           /\ \E g \in Range(ngrams) :
                  /\ PrefixAccepted => g = KeptPrefix
                  /\ HasWeight(g, result)
                  /\ ObservedAfter(g, result)
    /\ status = "ok" =>
           \A g \in Range(ngrams), t \in DOMAIN mapping :
               /\ HasWeight(g, t) <=> ObservedAfter(g, t)
               /\ ObservedAfter(g, t) =>
                      Outcome("none", t, 0, 0, 1) \in
                          ReturnNextElementOutcomes(ngrams, n, state_space,
                              transition_matrix_prob, reverse_word_mapping, g)
    /\ (call.op = "generate_sequence" /\ pc \in {"loop", "returned", "raised"}) =>
           /\ Windows(sequence, n + 1) \subseteq Windows(tokens, n + 1)
           /\ \A i \in 1..Len(sequence) : sequence[i] # UnknownToken
    /\ (call.op = "generate_sequence" /\ pc = "returned") =>
           /\ Windows(Split(result), n + 1) \subseteq Windows(tokens, n + 1)
           /\ Split(result) = sequence

\* C16 witness: generate_sequence returned a text with two sampled tokens, so
\* with two windows of n+1 tokens, the second of which is not the first
C16_Witness ==
    /\ call.op = "generate_sequence"
    /\ pc = "returned"
    /\ samples = 2
    /\ \E w1, w2 \in Windows(Split(result), n + 1) : w1 # w2

\* return_next_element returned one of two tokens observed after the n-gram
C16_WitnessChoice ==
    /\ call.op = "return_next_element"
    /\ pc = "returned"
    /\ PrefixAccepted
    /\ \E t \in DOMAIN mapping : t # result /\ HasWeight(KeptPrefix, t)

\* the number of characters of s[1..i] that are neither whitespace nor removed
KeptUpTo(s, i) ==
    Cardinality({m \in 1..i : ~IsWhitespace(s[m]) /\ s[m] \notin PunctuationRemove})

\* the position in s of its k-th character that is no whitespace
PositionOfKept(s, k) ==
    CHOOSE j \in 1..Len(s) :
        ~IsWhitespace(s[j]) /\ Cardinality({m \in 1..j : ~IsWhitespace(s[m])}) = k

\* position i of the raw text holds a newline between two characters that are no
\* whitespace and that preprocess keeps
HardBreak(i) ==
    /\ 1 < i /\ i < Len(raw)
    /\ raw[i] = "\n"
    /\ ~IsWhitespace(raw[i - 1]) /\ raw[i - 1] \notin PunctuationRemove
    /\ ~IsWhitespace(raw[i + 1]) /\ raw[i + 1] \notin PunctuationRemove

\* C17 (as claimed): for every newline of the raw text with a non-space character
\* right before and right after it, the two characters are in different tokens of
\* the content: the one before the newline is followed by a space.
C17_LineBreaksSeparate ==
    tokens_status = "ok" =>
        \A i \in 1..Len(raw) :
            HardBreak(i) =>
                content[PositionOfKept(content, KeptUpTo(raw, i)) + 1] = " "

\* a raw text with a single hard line break, whose two sides are separated
C17_SingleBreakSeparated ==
    /\ tokens_status = "ok"
    /\ Cardinality({i \in 1..Len(raw) : HardBreak(i)}) = 1
    /\ Len(tokens) = 2

\* the state space as NLPTextStateSpace.__init__ left it in this process
AsConstructed == BuiltElsewhere(hash_order)

\* C18: every call of generate_ngrams, generate_state_space,
\* generate_transition_matrix and generate_transition_matrix_prob on a constructed
\* state space returns a value equal to the stored ngrams, state_space,
\* transition_matrix and transition_matrix_prob, and after any sequence of such
\* calls the stored fields are still what the constructor assigned, the
\* regeneration of an empty n-gram sequence included.
C18_GenerateReturnsStored ==
    status = "ok" =>
        /\ ret.op = "generate_ngrams" => ret.val = ngrams
        /\ ret.op = "generate_state_space" => ret.val = state_space
        /\ ret.op = "generate_transition_matrix" => ret.val = transition_matrix
        /\ ret.op = "generate_transition_matrix_prob" => ret.val = transition_matrix_prob
        /\ ngrams = AsConstructed.ngrams
        /\ state_space = AsConstructed.state_space
        /\ transition_matrix = AsConstructed.transition_matrix
        /\ transition_matrix_prob = AsConstructed.transition_matrix_prob

\* C18 witness: generate_state_space() was called on a state space with several
\* distinct n-grams, which another set order would number differently
C18_Witness ==
    /\ status = "ok"
    /\ ret.op = "generate_state_space"
    /\ Cardinality(Range(ngrams)) >= 2
    /\ \E ss \in GenerateStateSpaceOf(ngrams) : ss # state_space

\* generate_state_space() took the regeneration branch: the n-gram sequence is empty
C18_WitnessRegenerated ==
    /\ status = "ok"
    /\ ret.op = "generate_state_space"
    /\ ngrams = <<>>

\* inside a generate_sequence call the prefix was repaired once, before any
\* sampling, and the window of the last n tokens is a known n-gram: no warning and
\* no draw of an n-gram happens after the first check_prefix
C19_NoSubstitutionInLoop ==
    (call.op = "generate_sequence" /\ pc \in {"loop", "returned"}) =>
        /\ warnings <= 1
        /\ draws = warnings
        /\ PrefixAccepted => warnings = 0
        /\ Join(LastN(sequence, n)) \in Range(ngrams)
        /\ pc = "loop" => prefix = Join(LastN(sequence, n))
        /\ samples = Len(sequence) - n

\* C19 (as claimed): a generate_sequence call repairs the prefix once, before
\* any sampling; then each step samples one token and appends it, the window of
\* the last n tokens being a known n-gram all along, with no further warning or
\* substitution, until the output has `length` tokens; then the call is done
\* and returns them.
C19_GenerationSteps ==
    call.op = "generate_sequence" =>
        /\ C19_NoSubstitutionInLoop
        /\ pc # "raised"
        /\ pc = "loop" => Len(sequence) + left = call.length
        /\ pc = "returned" => Len(sequence) = call.length

\* a generate_sequence call ended with an exception raised while sampling, after
\* the prefix was accepted
C19_RaisedInLoop ==
    /\ call.op = "generate_sequence"
    /\ pc = "raised"
    /\ PrefixAccepted
    /\ call.length > n

====
